---- MODULE Spec2Model ----
(***************************************************************************)
(* Model of the BME680 mbed driver (mbed_bme680.cpp): the per-channel      *)
(* enable flags, the sensor configuration held in gas_sensor, the last     *)
(* fetched field data, the calls the driver makes into the Bosch           *)
(* compensation engine, and the two bus callbacks it hands to the engine.  *)
(***************************************************************************)
EXTENDS Integers, Sequences, FiniteSets, TLC

(***************************************************************************)
(* Constants of the engine's definitions header.                           *)
(***************************************************************************)
BME680_OK == 0
BME680_E_COM_FAIL == -2
BME680_W_NO_NEW_DATA == 2

BME680_I2C_INTF == 1
BME680_DEFAULT_ADDRESS == 238

BME680_OS_NONE == 0
BME680_OS_1X == 1
BME680_OS_2X == 2
BME680_OS_4X == 3
BME680_OS_8X == 4
BME680_OS_16X == 5

BME680_FILTER_SIZE_0 == 0
BME680_FILTER_SIZE_1 == 1
BME680_FILTER_SIZE_3 == 2
BME680_FILTER_SIZE_127 == 7

BME680_DISABLE_GAS_MEAS == 0
BME680_ENABLE_GAS_MEAS == 1

BME680_SLEEP_MODE == 0
BME680_FORCED_MODE == 1

BME680_OST_SEL == 1
BME680_OSP_SEL == 2
BME680_OSH_SEL == 4
BME680_FILTER_SEL == 16
BME680_GAS_SENSOR_SEL == 200

BME680_HEAT_STAB_MSK == 16
BME680_NEW_DATA_MSK == 128

(***************************************************************************)
(* Bounds of the model: the argument values and engine outcomes tried.     *)
(***************************************************************************)
\* the largest value a uint8_t argument holds
MaxU8 == 255
\* how many values just above the highest valid level the range checks get
MaxInvalid == 1
\* arguments for a setter whose valid values are 0..max, in call sequences:
\* the disabling value 0, the value begin() applies, the first invalid value
SequenceArgs(default, max) == {0, default, max + 1}
\* arguments for the same setter when its range check is examined: 0, 1,
\* max, the values just above max, and 0xFF
RangeArgs(max) == {0, 1, max} \cup (max + 1 .. max + MaxInvalid) \cup {MaxU8}
\* heater temperatures and durations (uint16_t) in call sequences
HeaterTemps == {0, 320}
HeaterTimes == {0, 150}
\* heater temperatures and durations when setGasHeater is examined
HeaterRange == {0, 1, 65535}
\* I2C addresses handed to the constructor that takes one
Addresses == {236}
\* status codes the engine reports: OK, an error (negative), a warning (positive)
EngineResults == {BME680_OK, BME680_E_COM_FAIL, BME680_W_NO_NEW_DATA}
\* measurement durations (ms) the engine reports
Durations == {43, 183}

(***************************************************************************)
(* Bit operations on 8-bit values.                                         *)
(***************************************************************************)
RECURSIVE BitOr(_, _)
BitOr(a, b) ==
    IF a = 0 THEN b
    ELSE IF b = 0 THEN a
    ELSE (IF (a % 2 = 1) \/ (b % 2 = 1) THEN 1 ELSE 0) + 2 * BitOr(a \div 2, b \div 2)

RECURSIVE BitAnd(_, _)
BitAnd(a, b) ==
    IF a = 0 \/ b = 0 THEN 0
    ELSE (IF (a % 2 = 1) /\ (b % 2 = 1) THEN 1 ELSE 0) + 2 * BitAnd(a \div 2, b \div 2)

(***************************************************************************)
(* Single-precision floats.  A float is NaN or m * 2^e, kept canonical     *)
(* (m odd, or m = 0 and e = 0) so that equal values are equal records.     *)
(***************************************************************************)
NAN == [nan |-> TRUE, m |-> 0, e |-> 0]

RECURSIVE Canonical(_, _)
Canonical(m, e) ==
    IF m = 0 THEN [nan |-> FALSE, m |-> 0, e |-> 0]
    ELSE IF m % 2 = 0 THEN Canonical(m \div 2, e + 1)
    ELSE [nan |-> FALSE, m |-> m, e |-> e]

F32_MANT == 16777216
F32_HALF_MANT == 8388608

Abs(n) == IF n < 0 THEN -n ELSE n
Sign(n) == IF n < 0 THEN -1 ELSE 1

\* round-to-nearest-even of (m + rem/den) * 2^e, 0 <= rem < den
RoundNearestEven(m, rem, den) ==
    IF 2 * rem > den THEN m + 1
    ELSE IF 2 * rem = den /\ m % 2 = 1 THEN m + 1
    ELSE m

\* shift an integer mantissa right until it fits 24 bits, keeping the remainder
RECURSIVE ShiftRight(_, _, _, _)
ShiftRight(m, rem, den, e) ==
    IF m < F32_MANT THEN <<m, rem, den, e>>
    ELSE ShiftRight(m \div 2, rem + (m % 2) * den, 2 * den, e + 1)

\* shift a quotient left, pulling bits out of rem/den, until it has 24 bits
RECURSIVE ShiftLeft(_, _, _, _)
ShiftLeft(m, rem, den, e) ==
    IF m >= F32_HALF_MANT THEN <<m, rem, den, e>>
    ELSE ShiftLeft(2 * m + (IF 2 * rem >= den THEN 1 ELSE 0),
                   (2 * rem) % den, den, e - 1)

\* the float nearest to n / d (d > 0): what (float)(n / (double) d) yields
F32Div(n, d) ==
    IF n = 0 THEN Canonical(0, 0)
    ELSE LET a == Abs(n)
             q == a \div d
             r == a % d
             s == IF q >= F32_MANT THEN ShiftRight(q, r, d, 0)
                                   ELSE ShiftLeft(q, r, d, 0)
             c == Canonical(RoundNearestEven(s[1], s[2], s[3]), s[4])
         IN  [c EXCEPT !.m = Sign(n) * c.m]

\* the float an integer converts to
F32FromInt(n) == F32Div(n, 1)

\* the float that is exactly the integer n (no rounding)
F32Exact(n) == IF n = 0 THEN Canonical(0, 0)
               ELSE LET c == Canonical(Abs(n), 0) IN [c EXCEPT !.m = Sign(n) * c.m]

(***************************************************************************)
(* State.                                                                  *)
(*   bme     the BME680 object: _adr, the five enable flags, gas_sensor    *)
(*           (the engine's device descriptor) and data (the field data)    *)
(*   op      the member function called last ("BME680" after construction) *)
(*   arg     its arguments                                                 *)
(*   ret     its return value                                              *)
(*   engine  the engine and delay calls it made, in order                  *)
(*   frame   the activation of the bus callback (i2c_read, i2c_write) that  *)
(*           runs or ran last: its parameters, its locals and the bus       *)
(*           operations it has made                                         *)
(*   acquired  history: the channels selected in the settings mask of the   *)
(*           most recent reading that returned true, none before the first  *)
(***************************************************************************)
VARIABLES bme, op, arg, ret, engine, frame, acquired

vars == <<bme, op, arg, ret, engine, frame, acquired>>

\* what an object's members hold before anything is assigned to them.  The
\* flags may read either way; the descriptor is taken zero-filled except for
\* the power mode, the field data holds leftovers.
Indeterminate ==
    { [flag |-> f, adr |-> 90,
       gas_sensor |-> [dev_id |-> 0, intf |-> 0, read |-> "null", write |-> "null",
                       delay_ms |-> "null", power_mode |-> 3,
                       tph_sett |-> [os_hum |-> 0, os_temp |-> 0, os_pres |-> 0, filter |-> 0],
                       gas_sett |-> [heatr_temp |-> 0, heatr_dur |-> 0, run_gas |-> 0]],
       data |-> [status |-> 48, temperature |-> -23131, pressure |-> 5921370,
                 humidity |-> 23130, gas_resistance |-> 42405]] : f \in BOOLEAN }

\* field data the engine delivers: one with the heater stable, one without
EngineSamples ==
    { [status |-> 176, temperature |-> 2550, pressure |-> 101325,
       humidity |-> 45000, gas_resistance |-> 12946860],
      [status |-> 128, temperature |-> -512, pressure |-> 96000,
       humidity |-> 30125, gas_resistance |-> 71023] }

(***************************************************************************)
(* The constructors.                                                       *)
(***************************************************************************)
\* BME680(adr, sda, scl): clears the five flags and stores the address
BME680_adr(mem, adr) ==
    [adr |-> adr,
     filterEnabled |-> FALSE, tempEnabled |-> FALSE, humEnabled |-> FALSE,
     presEnabled |-> FALSE, gasEnabled |-> FALSE,
     gas_sensor |-> mem.gas_sensor, data |-> mem.data]

\* BME680(sda, scl): constructs and discards a temporary; no member of the
\* object itself is assigned
BME680_default(mem) ==
    [adr |-> mem.adr,
     filterEnabled |-> mem.flag, tempEnabled |-> mem.flag, humEnabled |-> mem.flag,
     presEnabled |-> mem.flag, gasEnabled |-> mem.flag,
     gas_sensor |-> mem.gas_sensor, data |-> mem.data]

(***************************************************************************)
(* The setters, as functions from the object to the object and the value   *)
(* returned.                                                               *)
(***************************************************************************)
\* setGasHeater with the test for a zero argument written with && for ||
setGasHeater_bothZero(self, heaterTemp, heaterTime) ==
    LET stored == [self EXCEPT !.gas_sensor.gas_sett.heatr_temp = heaterTemp,
                               !.gas_sensor.gas_sett.heatr_dur = heaterTime]
    IN  IF (heaterTemp = 0) /\ (heaterTime = 0)
        THEN [obj |-> [stored EXCEPT !.gas_sensor.gas_sett.run_gas = BME680_DISABLE_GAS_MEAS,
                                     !.gasEnabled = FALSE],
              ret |-> TRUE]
        ELSE [obj |-> [stored EXCEPT !.gas_sensor.gas_sett.run_gas = BME680_ENABLE_GAS_MEAS,
                                     !.gasEnabled = TRUE],
              ret |-> TRUE]

setGasHeater(self, heaterTemp, heaterTime) ==
    LET stored == [self EXCEPT !.gas_sensor.gas_sett.heatr_temp = heaterTemp,
                               !.gas_sensor.gas_sett.heatr_dur = heaterTime]
    IN  IF (heaterTemp = 0) \/ (heaterTime = 0)
        THEN [obj |-> [stored EXCEPT !.gas_sensor.gas_sett.run_gas = BME680_DISABLE_GAS_MEAS,
                                     !.gasEnabled = FALSE],
              ret |-> TRUE]
        ELSE [obj |-> [stored EXCEPT !.gas_sensor.gas_sett.run_gas = BME680_ENABLE_GAS_MEAS,
                                     !.gasEnabled = TRUE],
              ret |-> TRUE]

\* setTemperatureOversampling that stores the level but always sets the flag
setTemperatureOversampling_alwaysOn(self, oversample) ==
    IF oversample > BME680_OS_16X THEN [obj |-> self, ret |-> FALSE]
    ELSE [obj |-> [self EXCEPT !.gas_sensor.tph_sett.os_temp = oversample,
                               !.tempEnabled = TRUE],
          ret |-> TRUE]

setTemperatureOversampling(self, oversample) ==
    IF oversample > BME680_OS_16X THEN [obj |-> self, ret |-> FALSE]
    ELSE [obj |-> [self EXCEPT !.gas_sensor.tph_sett.os_temp = oversample,
                               !.tempEnabled = (oversample # BME680_OS_NONE)],
          ret |-> TRUE]

\* setHumidityOversampling that flips the flag instead of setting it
setHumidityOversampling_toggles(self, oversample) ==
    IF oversample > BME680_OS_16X THEN [obj |-> self, ret |-> FALSE]
    ELSE [obj |-> [self EXCEPT !.gas_sensor.tph_sett.os_hum = oversample,
                               !.humEnabled = IF oversample = BME680_OS_NONE THEN FALSE
                                              ELSE ~self.humEnabled],
          ret |-> TRUE]

setHumidityOversampling(self, oversample) ==
    IF oversample > BME680_OS_16X THEN [obj |-> self, ret |-> FALSE]
    ELSE [obj |-> [self EXCEPT !.gas_sensor.tph_sett.os_hum = oversample,
                               !.humEnabled = (oversample # BME680_OS_NONE)],
          ret |-> TRUE]

\* setPressureOversampling with the range check written with >= for >
setPressureOversampling_rejects16X(self, oversample) ==
    IF oversample >= BME680_OS_16X THEN [obj |-> self, ret |-> FALSE]
    ELSE [obj |-> [self EXCEPT !.gas_sensor.tph_sett.os_pres = oversample,
                               !.presEnabled = (oversample # BME680_OS_NONE)],
          ret |-> TRUE]

setPressureOversampling(self, oversample) ==
    IF oversample > BME680_OS_16X THEN [obj |-> self, ret |-> FALSE]
    ELSE [obj |-> [self EXCEPT !.gas_sensor.tph_sett.os_pres = oversample,
                               !.presEnabled = (oversample # BME680_OS_NONE)],
          ret |-> TRUE]

\* setIIRFilterSize that reports an invalid size only after storing it
setIIRFilterSize_storesInvalid(self, filter_seize) ==
    LET stored == [self EXCEPT !.gas_sensor.tph_sett.filter = filter_seize,
                               !.filterEnabled = (filter_seize # BME680_FILTER_SIZE_0)]
    IN  IF filter_seize > BME680_FILTER_SIZE_127 THEN [obj |-> stored, ret |-> FALSE]
        ELSE [obj |-> stored, ret |-> TRUE]

setIIRFilterSize(self, filter_seize) ==
    IF filter_seize > BME680_FILTER_SIZE_127 THEN [obj |-> self, ret |-> FALSE]
    ELSE [obj |-> [self EXCEPT !.gas_sensor.tph_sett.filter = filter_seize,
                               !.filterEnabled = (filter_seize # BME680_FILTER_SIZE_0)],
          ret |-> TRUE]

(***************************************************************************)
(* The engine, seen from the driver: every call reports a status code; the *)
(* fetch writes through the pointer to the field data it is given.         *)
(***************************************************************************)
\* one entry of the call log: the function, its scalar argument, the device
\* descriptor it was handed, and the status it reported
EngineCall(fn, a, dev, result) == [fn |-> fn, arg |-> a, dev |-> dev, result |-> result]

\* what bme680_get_sensor_data may leave in *data: a fresh sample when it
\* reports OK; otherwise the old content, the old content with the status
\* byte rewritten, or a sample
bme680_get_sensor_data(data, result) ==
    IF result = BME680_OK THEN EngineSamples
    ELSE {data, [data EXCEPT !.status = 0]}

(***************************************************************************)
(* begin(): installs the descriptor, applies the defaults, initialises     *)
(* the engine.  result is the status bme680_init reports.                  *)
(***************************************************************************)
\* begin() that calls bme680_init before it applies the defaults
begin_initFirst(self, result) ==
    LET s0 == [self EXCEPT !.gas_sensor.dev_id = self.adr,
                           !.gas_sensor.intf = BME680_I2C_INTF,
                           !.gas_sensor.read = "i2c_read",
                           !.gas_sensor.write = "i2c_write",
                           !.gas_sensor.delay_ms = "delay_msec"]
        log == <<EngineCall("bme680_init", 0, s0.gas_sensor, result)>>
        s1 == setHumidityOversampling(s0, BME680_OS_2X).obj
        s2 == setPressureOversampling(s1, BME680_OS_4X).obj
        s3 == setTemperatureOversampling(s2, BME680_OS_8X).obj
        s4 == setIIRFilterSize(s3, BME680_FILTER_SIZE_3).obj
        s5 == setGasHeater(s4, 320, 150).obj
    IN  IF result # BME680_OK
        THEN [obj |-> s5, ret |-> FALSE, engine |-> log]
        ELSE [obj |-> s5, ret |-> TRUE, engine |-> log]

\* begin() that takes only a negative status for a failure
begin_errorsOnly(self, result) ==
    LET s0 == [self EXCEPT !.gas_sensor.dev_id = self.adr,
                           !.gas_sensor.intf = BME680_I2C_INTF,
                           !.gas_sensor.read = "i2c_read",
                           !.gas_sensor.write = "i2c_write",
                           !.gas_sensor.delay_ms = "delay_msec"]
        s1 == setHumidityOversampling(s0, BME680_OS_2X).obj
        s2 == setPressureOversampling(s1, BME680_OS_4X).obj
        s3 == setTemperatureOversampling(s2, BME680_OS_8X).obj
        s4 == setIIRFilterSize(s3, BME680_FILTER_SIZE_3).obj
        s5 == setGasHeater(s4, 320, 150).obj
        log == <<EngineCall("bme680_init", 0, s5.gas_sensor, result)>>
    IN  IF result < BME680_OK
        THEN [obj |-> s5, ret |-> FALSE, engine |-> log]
        ELSE [obj |-> s5, ret |-> TRUE, engine |-> log]

begin(self, result) ==
    LET s0 == [self EXCEPT !.gas_sensor.dev_id = self.adr,
                           !.gas_sensor.intf = BME680_I2C_INTF,
                           !.gas_sensor.read = "i2c_read",
                           !.gas_sensor.write = "i2c_write",
                           !.gas_sensor.delay_ms = "delay_msec"]
        s1 == setHumidityOversampling(s0, BME680_OS_2X).obj
        s2 == setPressureOversampling(s1, BME680_OS_4X).obj
        s3 == setTemperatureOversampling(s2, BME680_OS_8X).obj
        s4 == setIIRFilterSize(s3, BME680_FILTER_SIZE_3).obj
        s5 == setGasHeater(s4, 320, 150).obj
        log == <<EngineCall("bme680_init", 0, s5.gas_sensor, result)>>
    IN  IF result # BME680_OK
        THEN [obj |-> s5, ret |-> FALSE, engine |-> log]
        ELSE [obj |-> s5, ret |-> TRUE, engine |-> log]

(***************************************************************************)
(* performReading().  rs, rm, rf are the statuses the settings push, the   *)
(* mode set and the data fetch report, meas_period the duration the engine *)
(* reports, fetched the content of data when the fetch returns.            *)
(***************************************************************************)
\* the settings mask built without the bit of the IIR filter
RequiredSettings_noFilter(self) ==
    LET m0 == 0
        m1 == IF self.tempEnabled THEN BitOr(m0, BME680_OST_SEL) ELSE m0
        m2 == IF self.humEnabled THEN BitOr(m1, BME680_OSH_SEL) ELSE m1
        m3 == IF self.presEnabled THEN BitOr(m2, BME680_OSP_SEL) ELSE m2
        m5 == IF self.gasEnabled THEN BitOr(m3, BME680_GAS_SENSOR_SEL) ELSE m3
    IN  m5

RequiredSettings(self) ==
    LET m0 == 0
        m1 == IF self.tempEnabled THEN BitOr(m0, BME680_OST_SEL) ELSE m0
        m2 == IF self.humEnabled THEN BitOr(m1, BME680_OSH_SEL) ELSE m1
        m3 == IF self.presEnabled THEN BitOr(m2, BME680_OSP_SEL) ELSE m2
        m4 == IF self.filterEnabled THEN BitOr(m3, BME680_FILTER_SEL) ELSE m3
        m5 == IF self.gasEnabled THEN BitOr(m4, BME680_GAS_SENSOR_SEL) ELSE m4
    IN  m5

\* performReading() that does not look at the status of the mode set
performReading_modeUnchecked(self, rs, rm, meas_period, rf, fetched) ==
    LET s0 == [self EXCEPT !.gas_sensor.power_mode = BME680_FORCED_MODE]
        set_required_settings == RequiredSettings(s0)
        c1 == EngineCall("bme680_set_sensor_settings", set_required_settings, s0.gas_sensor, rs)
        c2 == EngineCall("bme680_set_sensor_mode", 0, s0.gas_sensor, rm)
        c3 == EngineCall("bme680_get_profile_dur", 0, s0.gas_sensor, meas_period)
        c4 == EngineCall("delay_msec", meas_period, s0.gas_sensor, 0)
        c5 == EngineCall("bme680_get_sensor_data", 0, s0.gas_sensor, rf)
    IN  IF rs # BME680_OK
        THEN [obj |-> s0, ret |-> FALSE, engine |-> <<c1>>]
        ELSE IF rf # BME680_OK
        THEN [obj |-> [s0 EXCEPT !.data = fetched], ret |-> FALSE,
              engine |-> <<c1, c2, c3, c4, c5>>]
        ELSE [obj |-> [s0 EXCEPT !.data = fetched], ret |-> TRUE,
              engine |-> <<c1, c2, c3, c4, c5>>]

\* performReading() that waits a fixed time instead of the reported duration
performReading_fixedDelay(self, rs, rm, meas_period, rf, fetched) ==
    LET s0 == [self EXCEPT !.gas_sensor.power_mode = BME680_FORCED_MODE]
        set_required_settings == RequiredSettings(s0)
        c1 == EngineCall("bme680_set_sensor_settings", set_required_settings, s0.gas_sensor, rs)
        c2 == EngineCall("bme680_set_sensor_mode", 0, s0.gas_sensor, rm)
        c3 == EngineCall("bme680_get_profile_dur", 0, s0.gas_sensor, meas_period)
        c4 == EngineCall("delay_msec", 183, s0.gas_sensor, 0)
        c5 == EngineCall("bme680_get_sensor_data", 0, s0.gas_sensor, rf)
    IN  IF rs # BME680_OK
        THEN [obj |-> s0, ret |-> FALSE, engine |-> <<c1>>]
        ELSE IF rm # BME680_OK
        THEN [obj |-> s0, ret |-> FALSE, engine |-> <<c1, c2>>]
        ELSE IF rf # BME680_OK
        THEN [obj |-> [s0 EXCEPT !.data = fetched], ret |-> FALSE,
              engine |-> <<c1, c2, c3, c4, c5>>]
        ELSE [obj |-> [s0 EXCEPT !.data = fetched], ret |-> TRUE,
              engine |-> <<c1, c2, c3, c4, c5>>]

\* performReading() that sets the forced power mode only after the settings push
performReading_modeAfterPush(self, rs, rm, meas_period, rf, fetched) ==
    LET s0 == [self EXCEPT !.gas_sensor.power_mode = BME680_FORCED_MODE]
        set_required_settings == RequiredSettings(s0)
        c1 == EngineCall("bme680_set_sensor_settings", set_required_settings, self.gas_sensor, rs)
        c2 == EngineCall("bme680_set_sensor_mode", 0, s0.gas_sensor, rm)
        c3 == EngineCall("bme680_get_profile_dur", 0, s0.gas_sensor, meas_period)
        c4 == EngineCall("delay_msec", meas_period, s0.gas_sensor, 0)
        c5 == EngineCall("bme680_get_sensor_data", 0, s0.gas_sensor, rf)
    IN  IF rs # BME680_OK
        THEN [obj |-> s0, ret |-> FALSE, engine |-> <<c1>>]
        ELSE IF rm # BME680_OK
        THEN [obj |-> s0, ret |-> FALSE, engine |-> <<c1, c2>>]
        ELSE IF rf # BME680_OK
        THEN [obj |-> [s0 EXCEPT !.data = fetched], ret |-> FALSE,
              engine |-> <<c1, c2, c3, c4, c5>>]
        ELSE [obj |-> [s0 EXCEPT !.data = fetched], ret |-> TRUE,
              engine |-> <<c1, c2, c3, c4, c5>>]

\* performReading() that marks the temperature channel enabled after a fetch
performReading_enablesTemperature(self, rs, rm, meas_period, rf, fetched) ==
    LET s0 == [self EXCEPT !.gas_sensor.power_mode = BME680_FORCED_MODE]
        set_required_settings == RequiredSettings(s0)
        c1 == EngineCall("bme680_set_sensor_settings", set_required_settings, s0.gas_sensor, rs)
        c2 == EngineCall("bme680_set_sensor_mode", 0, s0.gas_sensor, rm)
        c3 == EngineCall("bme680_get_profile_dur", 0, s0.gas_sensor, meas_period)
        c4 == EngineCall("delay_msec", meas_period, s0.gas_sensor, 0)
        c5 == EngineCall("bme680_get_sensor_data", 0, s0.gas_sensor, rf)
    IN  IF rs # BME680_OK
        THEN [obj |-> s0, ret |-> FALSE, engine |-> <<c1>>]
        ELSE IF rm # BME680_OK
        THEN [obj |-> s0, ret |-> FALSE, engine |-> <<c1, c2>>]
        ELSE IF rf # BME680_OK
        THEN [obj |-> [s0 EXCEPT !.data = fetched], ret |-> FALSE,
              engine |-> <<c1, c2, c3, c4, c5>>]
        ELSE [obj |-> [s0 EXCEPT !.data = fetched, !.tempEnabled = TRUE], ret |-> TRUE,
              engine |-> <<c1, c2, c3, c4, c5>>]

performReading(self, rs, rm, meas_period, rf, fetched) ==
    LET s0 == [self EXCEPT !.gas_sensor.power_mode = BME680_FORCED_MODE]
        set_required_settings == RequiredSettings(s0)
        c1 == EngineCall("bme680_set_sensor_settings", set_required_settings, s0.gas_sensor, rs)
        c2 == EngineCall("bme680_set_sensor_mode", 0, s0.gas_sensor, rm)
        c3 == EngineCall("bme680_get_profile_dur", 0, s0.gas_sensor, meas_period)
        c4 == EngineCall("delay_msec", meas_period, s0.gas_sensor, 0)
        c5 == EngineCall("bme680_get_sensor_data", 0, s0.gas_sensor, rf)
    IN  IF rs # BME680_OK
        THEN [obj |-> s0, ret |-> FALSE, engine |-> <<c1>>]
        ELSE IF rm # BME680_OK
        THEN [obj |-> s0, ret |-> FALSE, engine |-> <<c1, c2>>]
        ELSE IF rf # BME680_OK
        THEN [obj |-> [s0 EXCEPT !.data = fetched], ret |-> FALSE,
              engine |-> <<c1, c2, c3, c4, c5>>]
        ELSE [obj |-> [s0 EXCEPT !.data = fetched], ret |-> TRUE,
              engine |-> <<c1, c2, c3, c4, c5>>]

(***************************************************************************)
(* The accessors.                                                          *)
(***************************************************************************)
isGasHeatingSetupStable(self) ==
    IF BitAnd(self.data.status, BME680_HEAT_STAB_MSK) # 0 THEN TRUE ELSE FALSE

getRawTemperature(self) == self.data.temperature
getRawPressure(self) == self.data.pressure
getRawHumidity(self) == self.data.humidity
getRawGasResistance(self) == self.data.gas_resistance

\* getTemperature() that reads the raw temperature as an unsigned 16-bit value
getTemperature_unsigned(self) ==
    IF self.tempEnabled THEN F32Div(self.data.temperature % 65536, 100) ELSE NAN

getTemperature(self) ==
    IF self.tempEnabled THEN F32Div(self.data.temperature, 100) ELSE NAN

\* getHumidity() without the check of the enable flag
getHumidity_ungated(self) == F32Div(self.data.humidity, 1000)

getHumidity(self) ==
    IF self.humEnabled THEN F32Div(self.data.humidity, 1000) ELSE NAN

getPressure(self) ==
    IF self.presEnabled THEN F32FromInt(self.data.pressure) ELSE NAN

\* getGasResistance() without the check of the heater-stable bit
getGasResistance_ungated(self) ==
    IF self.gasEnabled THEN F32FromInt(self.data.gas_resistance) ELSE F32FromInt(0)

getGasResistance(self) ==
    IF self.gasEnabled
    THEN IF isGasHeatingSetupStable(self) THEN F32FromInt(self.data.gas_resistance)
         ELSE F32FromInt(0)
    ELSE F32FromInt(0)

(***************************************************************************)
(* The bus callbacks.  i2c.write and i2c.read of the bus object report 0   *)
(* when the device acknowledged and a non-zero value when it did not.      *)
(***************************************************************************)
BusResults == {0, 1}

\* the registers addressed in the model: ctrl_meas and the chip id
Registers == {116, 208}

\* the lengths i2c_read is called with in the model
ReadLens == {1, 2}

\* the largest payload length i2c_write is called with in the model
MaxLen == 255

\* payload lengths: the short ones and those around the range of uint8_t
WriteLens == {0, 1, 2} \cup (MaxLen - 1 .. MaxLen)

\* the caller's buffer of len bytes
Payload(len) == [j \in 1 .. len |-> j % 256]

\* what may be read from the byte in front of the caller's buffer
OutOfBounds == {0, 255}

\* no callback has run
NoFrame ==
    [pc |-> "none", dev_id |-> 0, reg_addr |-> 0, reg_data |-> <<>>, len |-> 0,
     i |-> 0, data |-> <<>>, bus |-> <<>>]

\* one operation on the bus object
BusCall(fn, dev_id, bytes, len, result) ==
    [fn |-> fn, dev_id |-> dev_id, bytes |-> bytes, len |-> len, result |-> result]

\* i2c_read for len below 256, for which the loop that logs the bytes
\* ends: the status of the write is overwritten by the status of the read
i2c_read(dev_id, reg_addr, len, w, r) ==
    [frame |-> [NoFrame EXCEPT !.pc = "returned", !.dev_id = dev_id,
                               !.reg_addr = reg_addr, !.len = len,
                               !.data = <<reg_addr>>,
                               !.bus = <<BusCall("write", dev_id, <<reg_addr>>, 1, w),
                                         BusCall("read", dev_id, <<>>, len, r)>>],
     ret |-> r]

\* i2c_write up to the copy loop: data[len + 1] with data[0] = reg_addr,
\* the other elements not yet assigned (shown as 0; each is assigned by
\* the loop before anything reads it), and the counter i = 1
i2c_write_enter(dev_id, reg_addr, reg_data, len) ==
    [NoFrame EXCEPT !.pc = "copy", !.dev_id = dev_id, !.reg_addr = reg_addr,
                    !.reg_data = reg_data, !.len = len, !.i = 1,
                    !.data = <<reg_addr>> \o [j \in 1 .. len |-> 0]]

\* the condition of the copy loop: i is promoted to int, len + 1 is an int
i2c_write_more(f) == f.i < f.len + 1

\* one pass of the copy loop: data[i] = reg_data[i - 1], then i++ in
\* uint8_t.  With i = 0 the source is the byte in front of reg_data.
i2c_write_copy(f, before) ==
    [f EXCEPT !.data[f.i + 1] = IF f.i = 0 THEN before ELSE f.reg_data[f.i],
              !.i = (f.i + 1) % (MaxU8 + 1)]

\* after the copy loop: one i2c.write of len + 1 bytes, whose status is
\* returned (the logging loop that follows runs over the same range as the
\* copy loop, which has ended)
i2c_write_send(f, result) ==
    [frame |-> [f EXCEPT !.pc = "returned",
                         !.bus = <<BusCall("write", f.dev_id, f.data, f.len + 1, result)>>],
     ret |-> result]

(***************************************************************************)
(* Init: the object as either constructor leaves it.                       *)
(***************************************************************************)
Init ==
    /\ \E mem \in Indeterminate :
          \/ \E adr \in Addresses : bme = BME680_adr(mem, adr) /\ arg = <<adr>>
          \/ bme = BME680_default(mem) /\ arg = <<>>
    /\ op = "BME680"
    /\ ret = TRUE
    /\ engine = <<>>
    /\ frame = NoFrame
    /\ acquired = {}

(***************************************************************************)
(* One action per member function.                                         *)
(***************************************************************************)
Returned(name, a, r) ==
    /\ op' = name
    /\ arg' = a
    /\ bme' = r.obj
    /\ ret' = r.ret
    /\ frame' = frame

Call_begin ==
    \E result \in EngineResults :
        LET r == begin(bme, result)
        IN  Returned("begin", <<>>, r) /\ engine' = r.engine

\* an engine call that is not reached reports nothing: its status is fixed
\* to OK here so that each run of performReading is one transition
Call_performReading ==
    \E rs \in EngineResults :
    \E rm \in (IF rs = BME680_OK THEN EngineResults ELSE {BME680_OK}) :
    \E rf \in (IF rs = BME680_OK /\ rm = BME680_OK THEN EngineResults ELSE {BME680_OK}) :
    \E meas_period \in (IF rs = BME680_OK /\ rm = BME680_OK THEN Durations ELSE {0}) :
    \E fetched \in (IF rs = BME680_OK /\ rm = BME680_OK
                    THEN bme680_get_sensor_data(bme.data, rf) ELSE {bme.data}) :
        LET r == performReading(bme, rs, rm, meas_period, rf, fetched)
        IN  Returned("performReading", <<>>, r) /\ engine' = r.engine

Call_setGasHeater(Temps, Times) ==
    \E heaterTemp \in Temps, heaterTime \in Times :
        /\ Returned("setGasHeater", <<heaterTemp, heaterTime>>,
                    setGasHeater(bme, heaterTemp, heaterTime))
        /\ engine' = <<>>

Call_setTemperatureOversampling(Args) ==
    \E oversample \in Args :
        /\ Returned("setTemperatureOversampling", <<oversample>>,
                    setTemperatureOversampling(bme, oversample))
        /\ engine' = <<>>

Call_setHumidityOversampling(Args) ==
    \E oversample \in Args :
        /\ Returned("setHumidityOversampling", <<oversample>>,
                    setHumidityOversampling(bme, oversample))
        /\ engine' = <<>>

Call_setPressureOversampling(Args) ==
    \E oversample \in Args :
        /\ Returned("setPressureOversampling", <<oversample>>,
                    setPressureOversampling(bme, oversample))
        /\ engine' = <<>>

Call_setIIRFilterSize(Args) ==
    \E filter_seize \in Args :
        /\ Returned("setIIRFilterSize", <<filter_seize>>,
                    setIIRFilterSize(bme, filter_seize))
        /\ engine' = <<>>

Accessor(name, value) ==
    /\ Returned(name, <<>>, [obj |-> bme, ret |-> value])
    /\ engine' = <<>>

Call_isGasHeatingSetupStable == Accessor("isGasHeatingSetupStable", isGasHeatingSetupStable(bme))
Call_getTemperature == Accessor("getTemperature", getTemperature(bme))
Call_getHumidity == Accessor("getHumidity", getHumidity(bme))
Call_getPressure == Accessor("getPressure", getPressure(bme))
Call_getGasResistance == Accessor("getGasResistance", getGasResistance(bme))

(***************************************************************************)
(* Spec: any sequence of calls of the member functions on one object.      *)
(* The history is not recorded here.                                       *)
(***************************************************************************)
Next ==
    \/ Call_begin /\ UNCHANGED acquired
    \/ Call_performReading /\ UNCHANGED acquired
    \/ Call_setGasHeater(HeaterTemps, HeaterTimes) /\ UNCHANGED acquired
    \/ Call_setTemperatureOversampling(SequenceArgs(BME680_OS_8X, BME680_OS_16X)) /\ UNCHANGED acquired
    \/ Call_setHumidityOversampling(SequenceArgs(BME680_OS_2X, BME680_OS_16X)) /\ UNCHANGED acquired
    \/ Call_setPressureOversampling(SequenceArgs(BME680_OS_4X, BME680_OS_16X)) /\ UNCHANGED acquired
    \/ Call_setIIRFilterSize(SequenceArgs(BME680_FILTER_SIZE_3, BME680_FILTER_SIZE_127)) /\ UNCHANGED acquired
    \/ Call_isGasHeatingSetupStable /\ UNCHANGED acquired
    \/ Call_getTemperature /\ UNCHANGED acquired
    \/ Call_getHumidity /\ UNCHANGED acquired
    \/ Call_getPressure /\ UNCHANGED acquired
    \/ Call_getGasResistance /\ UNCHANGED acquired

Spec == Init /\ [][Next]_vars

(***************************************************************************)
(* SpecSetters: any sequence of begin() and setter calls, the setters      *)
(* given the values around their range checks.                             *)
(***************************************************************************)
NextSetters ==
    \/ Call_begin /\ UNCHANGED acquired
    \/ Call_setGasHeater(HeaterRange, HeaterRange) /\ UNCHANGED acquired
    \/ Call_setTemperatureOversampling(RangeArgs(BME680_OS_16X)) /\ UNCHANGED acquired
    \/ Call_setHumidityOversampling(RangeArgs(BME680_OS_16X)) /\ UNCHANGED acquired
    \/ Call_setPressureOversampling(RangeArgs(BME680_OS_16X)) /\ UNCHANGED acquired
    \/ Call_setIIRFilterSize(RangeArgs(BME680_FILTER_SIZE_127)) /\ UNCHANGED acquired

SpecSetters == Init /\ [][NextSetters]_vars

(***************************************************************************)
(* SpecTransport: any sequence of calls of the two bus callbacks, one at a *)
(* time; i2c_write takes one step per pass of its copy loop.               *)
(***************************************************************************)
Call_i2c_read ==
    /\ frame.pc # "copy"
    /\ \E dev_id \in Addresses, reg_addr \in Registers, len \in ReadLens :
       \E w \in BusResults, r \in BusResults :
          LET c == i2c_read(dev_id, reg_addr, len, w, r)
          IN  /\ op' = "i2c_read"
              /\ arg' = <<dev_id, reg_addr, len>>
              /\ frame' = c.frame
              /\ ret' = c.ret
    /\ UNCHANGED <<bme, engine, acquired>>

Call_i2c_write ==
    /\ frame.pc # "copy"
    /\ \E dev_id \in Addresses, reg_addr \in Registers, len \in WriteLens :
          /\ op' = "i2c_write"
          /\ arg' = <<dev_id, reg_addr, len>>
          /\ frame' = i2c_write_enter(dev_id, reg_addr, Payload(len), len)
    /\ UNCHANGED <<bme, ret, engine, acquired>>

Step_i2c_write_copy ==
    /\ frame.pc = "copy"
    /\ i2c_write_more(frame)
    /\ \E before \in (IF frame.i = 0 THEN OutOfBounds ELSE {0}) :
          frame' = i2c_write_copy(frame, before)
    /\ UNCHANGED <<bme, op, arg, ret, engine, acquired>>

Step_i2c_write_send ==
    /\ frame.pc = "copy"
    /\ ~i2c_write_more(frame)
    /\ \E result \in BusResults :
          LET c == i2c_write_send(frame, result)
          IN  frame' = c.frame /\ ret' = c.ret
    /\ UNCHANGED <<bme, op, arg, engine, acquired>>

NextTransport ==
    \/ Call_i2c_read
    \/ Call_i2c_write
    \/ Step_i2c_write_copy
    \/ Step_i2c_write_send

SpecTransport == Init /\ [][NextTransport]_vars

(***************************************************************************)
(* SpecHistory: sequences of begin(), readings, the four value accessors  *)
(* and the setters of the temperature and the gas channel (the humidity    *)
(* and pressure setters are built like the temperature setter), with the   *)
(* history of the readings recorded.                                       *)
(***************************************************************************)
\* the measured channels whose selection bits are in a settings mask
Channels(mask) ==
    {c \in {BME680_OST_SEL, BME680_OSH_SEL, BME680_OSP_SEL, BME680_GAS_SENSOR_SEL} :
        BitAnd(mask, c) = c}

\* the history after a call: a reading that returned true replaces it
Record ==
    acquired' = IF op' = "performReading" /\ ret' = TRUE
                THEN Channels(engine'[1].arg)
                ELSE acquired

NextHistory ==
    \/ Call_begin /\ Record
    \/ Call_performReading /\ Record
    \/ Call_setGasHeater(HeaterTemps, HeaterTimes) /\ Record
    \/ Call_setTemperatureOversampling(SequenceArgs(BME680_OS_8X, BME680_OS_16X)) /\ Record
    \/ Call_getTemperature /\ Record
    \/ Call_getHumidity /\ Record
    \/ Call_getPressure /\ Record
    \/ Call_getGasResistance /\ Record

SpecHistory == Init /\ [][NextHistory]_vars

(***************************************************************************)
(* Properties.                                                             *)
(***************************************************************************)
\* the engine calls that report a status code
StatusCalls == {"bme680_init", "bme680_set_sensor_settings",
                "bme680_set_sensor_mode", "bme680_get_sensor_data"}

\* the call to fn in the log of the last member function reported OK
ReportedOK(fn) ==
    \E i \in DOMAIN engine : engine[i].fn = fn /\ engine[i].result = BME680_OK

\* C1: performReading() returns true exactly when the settings push, the
\* mode set and the data fetch all reported OK, and a step that reports a
\* non-OK status is the last engine call of that reading.
C1_ReadingReturnsAllOK ==
    op = "performReading" =>
        /\ ret = (/\ ReportedOK("bme680_set_sensor_settings")
                  /\ ReportedOK("bme680_set_sensor_mode")
                  /\ ReportedOK("bme680_get_sensor_data"))
        /\ \A i \in DOMAIN engine :
              (engine[i].fn \in StatusCalls /\ engine[i].result # BME680_OK)
                  => (i = Len(engine) /\ ret = FALSE)

\* a reading whose first two steps succeed and whose fetch reports a warning
C1_Witness ==
    /\ op = "performReading"
    /\ ret = FALSE
    /\ Len(engine) = 5
    /\ engine[5].fn = "bme680_get_sensor_data"
    /\ engine[5].result = BME680_W_NO_NEW_DATA

\* C2: a performReading() that returns false leaves the field data
\* (temperature, pressure, humidity, gas resistance, status) as it was.
C2_FailedReadingKeepsData ==
    [][(op' = "performReading" /\ ret' = FALSE) => bme'.data = bme.data]_vars

\* what a call of an oversampling setter with argument v must have done,
\* given the stored level and the enable flag of its channel after the call
OversamplingSet(v, stored, enabled) ==
    IF v > BME680_OS_16X
    THEN ret' = FALSE /\ bme' = bme
    ELSE ret' = TRUE /\ stored = v /\ enabled = (v # BME680_OS_NONE)

\* C3: each oversampling setter rejects a level above 16x (returns false,
\* nothing changes), accepts NONE (stores it, clears the channel's flag) and
\* accepts any other level (stores it, sets the channel's flag).
C3_OversamplingSetters ==
    [][/\ op' = "setTemperatureOversampling" =>
              OversamplingSet(arg'[1], bme'.gas_sensor.tph_sett.os_temp, bme'.tempEnabled)
       /\ op' = "setHumidityOversampling" =>
              OversamplingSet(arg'[1], bme'.gas_sensor.tph_sett.os_hum, bme'.humEnabled)
       /\ op' = "setPressureOversampling" =>
              OversamplingSet(arg'[1], bme'.gas_sensor.tph_sett.os_pres, bme'.presEnabled)]_vars

\* the pressure setter has accepted the highest level, 16x
C3_Witness ==
    /\ op = "setPressureOversampling"
    /\ arg = <<BME680_OS_16X>>
    /\ ret = TRUE
    /\ bme.gas_sensor.tph_sett.os_pres = BME680_OS_16X
    /\ bme.presEnabled

\* C4: setIIRFilterSize rejects a size above the 127-sample value (returns
\* false, nothing changes), accepts size 0 (stores it, clears the filter
\* flag) and accepts any other size (stores it, sets the filter flag).
C4_FilterSetter ==
    [][op' = "setIIRFilterSize" =>
          IF arg'[1] > BME680_FILTER_SIZE_127
          THEN ret' = FALSE /\ bme' = bme
          ELSE /\ ret' = TRUE
               /\ bme'.gas_sensor.tph_sett.filter = arg'[1]
               /\ bme'.filterEnabled = (arg'[1] # BME680_FILTER_SIZE_0)]_vars

\* the filter setter has rejected the first size above the maximum while
\* the filter was enabled
C4_Witness ==
    /\ op = "setIIRFilterSize"
    /\ arg = <<BME680_FILTER_SIZE_127 + 1>>
    /\ ret = FALSE
    /\ bme.filterEnabled

\* C5: setGasHeater(t, d) returns true, stores t and d, and leaves gas
\* enabled exactly when t and d are both nonzero, whatever the flag was.
C5_GasHeater ==
    [][op' = "setGasHeater" =>
          /\ ret' = TRUE
          /\ bme'.gas_sensor.gas_sett.heatr_temp = arg'[1]
          /\ bme'.gas_sensor.gas_sett.heatr_dur = arg'[2]
          /\ bme'.gasEnabled = (arg'[1] # 0 /\ arg'[2] # 0)]_vars

\* setGasHeater(X, 0) with X nonzero has left gas disabled
C5_Witness ==
    /\ op = "setGasHeater"
    /\ arg[1] # 0
    /\ arg[2] = 0
    /\ ret = TRUE
    /\ ~bme.gasEnabled

\* begin() has run on the object: only begin() installs the transport hooks
Initialized == bme.gas_sensor.read = "i2c_read"

\* every enable flag has the value its channel's stored setting gives it
FlagsDerived ==
    /\ bme.tempEnabled = (bme.gas_sensor.tph_sett.os_temp # BME680_OS_NONE)
    /\ bme.humEnabled = (bme.gas_sensor.tph_sett.os_hum # BME680_OS_NONE)
    /\ bme.presEnabled = (bme.gas_sensor.tph_sett.os_pres # BME680_OS_NONE)
    /\ bme.filterEnabled = (bme.gas_sensor.tph_sett.filter # BME680_FILTER_SIZE_0)
    /\ bme.gasEnabled = (/\ bme.gas_sensor.gas_sett.heatr_temp # 0
                         /\ bme.gas_sensor.gas_sett.heatr_dur # 0)
    /\ bme.gas_sensor.gas_sett.run_gas =
          (IF bme.gasEnabled THEN BME680_ENABLE_GAS_MEAS ELSE BME680_DISABLE_GAS_MEAS)

\* a flag changes only in a call of its channel's setter, or in begin(),
\* which calls all five setters
FlagsChangeInSetter ==
    /\ bme'.tempEnabled # bme.tempEnabled => op' \in {"setTemperatureOversampling", "begin"}
    /\ bme'.humEnabled # bme.humEnabled => op' \in {"setHumidityOversampling", "begin"}
    /\ bme'.presEnabled # bme.presEnabled => op' \in {"setPressureOversampling", "begin"}
    /\ bme'.filterEnabled # bme.filterEnabled => op' \in {"setIIRFilterSize", "begin"}
    /\ bme'.gasEnabled # bme.gasEnabled => op' \in {"setGasHeater", "begin"}

\* C6: once begin() has run, after any sequence of setter calls, readings
\* and accessor calls every enable flag equals the value derived from the
\* stored setting of its channel (and run_gas agrees with the gas flag), and
\* no call other than the channel's own setter changes a flag.
C6_FlagsFollowSettings ==
    /\ [](Initialized => FlagsDerived)
    /\ [][FlagsChangeInSetter]_vars

\* after begin(), a rejected filter size arrives while the filter is off and
\* a reading has been taken
C6_Witness ==
    /\ Initialized
    /\ op = "setIIRFilterSize"
    /\ ret = FALSE
    /\ ~bme.filterEnabled
    /\ bme.data \in EngineSamples

\* C7: the accessor of a disabled channel returns the disabled sentinel
\* whatever the field data holds: NaN for temperature, humidity and
\* pressure, 0 for gas resistance.
C7_DisabledSentinel ==
    /\ (op = "getTemperature" /\ ~bme.tempEnabled) => ret = NAN
    /\ (op = "getHumidity" /\ ~bme.humEnabled) => ret = NAN
    /\ (op = "getPressure" /\ ~bme.presEnabled) => ret = NAN
    /\ (op = "getGasResistance" /\ ~bme.gasEnabled) => ret = F32Exact(0)

\* getHumidity() called with humidity disabled and a fetched sample in data
C7_Witness ==
    /\ op = "getHumidity"
    /\ ~bme.humEnabled
    /\ bme.data \in EngineSamples
    /\ bme.data.humidity # 0

\* the heater-stable bit (bit 4) of the status byte
HeatStabBit(status) == (status \div 16) % 2 = 1

\* C8: getGasResistance() returns the raw gas resistance when gas is enabled
\* and the heater-stable bit of the fetched status is set, and 0 otherwise,
\* also when the raw value is nonzero; isGasHeatingSetupStable() returns
\* exactly that bit and changes nothing.
C8_GasStabilityGate ==
    /\ [](op = "getGasResistance" =>
            ret = IF bme.gasEnabled /\ HeatStabBit(bme.data.status)
                  THEN F32Exact(bme.data.gas_resistance)
                  ELSE F32Exact(0))
    /\ [](op = "isGasHeatingSetupStable" => ret = HeatStabBit(bme.data.status))
    /\ [][op' = "isGasHeatingSetupStable" => bme' = bme]_vars

\* gas enabled, heater not stable, nonzero raw value: the accessor gave 0
C8_Witness ==
    /\ op = "getGasResistance"
    /\ bme.gasEnabled
    /\ ~HeatStabBit(bme.data.status)
    /\ bme.data.gas_resistance # 0
    /\ ret = F32Exact(0)

\* the configuration begin() establishes
DefaultConfiguration(dev) ==
    /\ dev.tph_sett.os_hum = BME680_OS_2X
    /\ dev.tph_sett.os_pres = BME680_OS_4X
    /\ dev.tph_sett.os_temp = BME680_OS_8X
    /\ dev.tph_sett.filter = BME680_FILTER_SIZE_3
    /\ dev.gas_sett.heatr_temp = 320
    /\ dev.gas_sett.heatr_dur = 150

\* C9: after begin(), from any prior state and whatever the engine's
\* initialisation reports, the stored configuration is the default one and
\* all five flags are true; the defaults are already in the descriptor when
\* the engine's initialisation is called.
C9_BeginAppliesDefaults ==
    op = "begin" =>
        /\ DefaultConfiguration(bme.gas_sensor)
        /\ bme.tempEnabled /\ bme.humEnabled /\ bme.presEnabled
        /\ bme.gasEnabled /\ bme.filterEnabled
        /\ \A i \in DOMAIN engine :
              engine[i].fn = "bme680_init" => DefaultConfiguration(engine[i].dev)

\* begin() has failed on an object whose data came from a reading
C9_Witness ==
    /\ op = "begin"
    /\ ret = FALSE
    /\ bme.data \in EngineSamples
    /\ Len(engine) = 1

\* C10: begin() returns true exactly when the engine's initialisation
\* reports OK, and calls that routine exactly once.
C10_BeginReturnsInitStatus ==
    op = "begin" =>
        /\ Len(engine) = 1
        /\ engine[1].fn = "bme680_init"
        /\ ret = (engine[1].result = BME680_OK)

\* begin() has returned false on a warning (positive status)
C10_Witness ==
    /\ op = "begin"
    /\ ret = FALSE
    /\ Len(engine) = 1
    /\ engine[1].result = BME680_W_NO_NEW_DATA

\* the log of a reading that got as far as n engine calls
ReadingLog(n) ==
    /\ Len(engine) = n
    /\ n >= 1 => engine[1].fn = "bme680_set_sensor_settings"
    /\ n >= 2 => engine[2].fn = "bme680_set_sensor_mode"
    /\ n >= 3 => engine[3].fn = "bme680_get_profile_dur"
    /\ n >= 4 => engine[4].fn = "delay_msec" /\ engine[4].arg = engine[3].result
    /\ n >= 5 => engine[5].fn = "bme680_get_sensor_data"

\* C11: a reading makes its engine calls in the order settings push, mode
\* set, duration query, delay of exactly the queried duration, data fetch,
\* each at most once; a failed settings push is the only call of its
\* reading, a failed mode set the last of two; the reading ends with true
\* after a successful fetch and with false otherwise.
C11_ReadingStepOrder ==
    op = "performReading" =>
        \/ ReadingLog(1) /\ engine[1].result # BME680_OK /\ ret = FALSE
        \/ /\ ReadingLog(2) /\ engine[1].result = BME680_OK
           /\ engine[2].result # BME680_OK /\ ret = FALSE
        \/ /\ ReadingLog(5) /\ engine[1].result = BME680_OK
           /\ engine[2].result = BME680_OK
           /\ ret = (engine[5].result = BME680_OK)

\* a successful reading that waited the shorter of the reported durations
C11_Witness ==
    /\ op = "performReading"
    /\ ret = TRUE
    /\ Len(engine) = 5
    /\ engine[3].result = 43
    /\ engine[4].arg = 43

\* the selection bits of the channels whose flag is set
SelectionBits ==
    (IF bme.tempEnabled THEN BME680_OST_SEL ELSE 0)
    + (IF bme.humEnabled THEN BME680_OSH_SEL ELSE 0)
    + (IF bme.presEnabled THEN BME680_OSP_SEL ELSE 0)
    + (IF bme.filterEnabled THEN BME680_FILTER_SEL ELSE 0)
    + (IF bme.gasEnabled THEN BME680_GAS_SENSOR_SEL ELSE 0)

\* C12: the mask a reading passes to the settings push holds the selection
\* bits of exactly the channels whose enable flag is set at the call.
C12_SettingsMask ==
    op = "performReading" => engine[1].arg = SelectionBits

\* a reading with temperature and gas off and the other three channels on
C12_Witness ==
    /\ op = "performReading"
    /\ ~bme.tempEnabled /\ ~bme.gasEnabled
    /\ bme.humEnabled /\ bme.presEnabled /\ bme.filterEnabled
    /\ engine[1].arg = BME680_OSH_SEL + BME680_OSP_SEL + BME680_FILTER_SEL

\* the enable flags and the stored oversampling, filter and heater settings
Configuration(self) ==
    <<self.tempEnabled, self.humEnabled, self.presEnabled, self.filterEnabled,
      self.gasEnabled, self.gas_sensor.tph_sett, self.gas_sensor.gas_sett>>

\* C13: a reading, successful or not, changes no enable flag and no stored
\* setting; so after setTemperatureOversampling(NONE) and a successful
\* reading getTemperature() returns NaN whatever raw temperature was fetched.
C13_ReadingKeepsConfiguration ==
    [][/\ op' = "performReading" => Configuration(bme') = Configuration(bme)
       /\ (/\ op = "setTemperatureOversampling" /\ arg = <<BME680_OS_NONE>>
           /\ op' = "performReading")
              => ~bme'.tempEnabled
       /\ (/\ op = "performReading" /\ ret = TRUE /\ ~bme.tempEnabled
           /\ op' = "getTemperature")
              => ret' = NAN]_vars

\* temperature is off, a fetched nonzero raw temperature is in data, and
\* getTemperature() has answered NaN
C13_Witness ==
    /\ op = "getTemperature"
    /\ ret = NAN
    /\ bme.gas_sensor.tph_sett.os_temp = BME680_OS_NONE
    /\ bme.data \in EngineSamples
    /\ bme.data.temperature # 0

\* the setters
Setters == {"setTemperatureOversampling", "setHumidityOversampling",
            "setPressureOversampling", "setIIRFilterSize", "setGasHeater"}

\* C14: a setter called again with the argument it has just accepted
\* leaves the enable flags and the stored configuration as the first call
\* left them.
C14_SettersIdempotent ==
    [][(/\ op \in Setters /\ ret = TRUE
        /\ op' = op /\ arg' = arg)
          => (ret' = TRUE /\ Configuration(bme') = Configuration(bme))]_vars

\* the humidity setter has accepted a level that enables the channel
C14_Witness ==
    /\ op = "setHumidityOversampling"
    /\ arg = <<BME680_OS_16X>>
    /\ ret = TRUE
    /\ bme.humEnabled

RECURSIVE Pow2(_)
Pow2(n) == IF n = 0 THEN 1 ELSE 2 * Pow2(n - 1)

\* the float r is raw / (odd * 2^shift) to within half a unit of its last
\* mantissa bit
IsQuotient(r, raw, odd, shift) ==
    /\ r.nan = FALSE
    /\ LET k == -(r.e + shift)
       IN  IF k >= 0
           THEN 2 * Abs(r.m * odd - raw * Pow2(k)) <= odd
           ELSE r.m * odd * Pow2(-k) = raw

\* C17: with its channel enabled getTemperature() returns the signed raw
\* temperature divided by 100 (2550 gives 25.5, a negative raw value a
\* negative temperature), getHumidity() the raw humidity divided by 1000
\* (45000 gives 45.0), getPressure() the raw pressure unchanged.
C17_UnitConversion ==
    /\ (op = "getTemperature" /\ bme.tempEnabled) =>
          /\ IsQuotient(ret, bme.data.temperature, 25, 2)
          /\ bme.data.temperature = 2550 => ret = [nan |-> FALSE, m |-> 51, e |-> -1]
          /\ bme.data.temperature < 0 => ret.m < 0
    /\ (op = "getHumidity" /\ bme.humEnabled) =>
          /\ IsQuotient(ret, bme.data.humidity, 125, 3)
          /\ bme.data.humidity = 45000 => ret = [nan |-> FALSE, m |-> 45, e |-> 0]
    /\ (op = "getPressure" /\ bme.presEnabled) =>
          ret = F32Exact(bme.data.pressure)

\* getTemperature() has converted a fetched negative raw temperature
C17_Witness ==
    /\ op = "getTemperature"
    /\ bme.tempEnabled
    /\ bme.data \in EngineSamples
    /\ bme.data.temperature = -512
    /\ ret.m < 0

\* C18: in every reading the power mode of the descriptor is forced when
\* the settings push and the mode set are called, whatever it was before,
\* and it is forced when the reading returns, with true or false.
C18_ForcedModeFirst ==
    op = "performReading" =>
        /\ bme.gas_sensor.power_mode = BME680_FORCED_MODE
        /\ \A i \in DOMAIN engine :
              engine[i].fn \in {"bme680_set_sensor_settings", "bme680_set_sensor_mode"}
                  => engine[i].dev.power_mode = BME680_FORCED_MODE

\* the first reading on an object fails at the settings push
C18_Witness ==
    /\ op = "performReading"
    /\ ret = FALSE
    /\ Len(engine) = 1
    /\ ~Initialized
    /\ bme.gas_sensor.power_mode = BME680_FORCED_MODE

\* C19: right after either constructor all five enable flags are false and
\* the stored address is the given or the default one, so every accessor
\* answers its disabled sentinel and a reading would push an empty mask.
C19_ConstructedDisabled ==
    op = "BME680" =>
        /\ ~bme.tempEnabled /\ ~bme.humEnabled /\ ~bme.presEnabled
        /\ ~bme.gasEnabled /\ ~bme.filterEnabled
        /\ bme.adr = (IF arg = <<>> THEN BME680_DEFAULT_ADDRESS ELSE arg[1])
        /\ getTemperature(bme) = NAN /\ getHumidity(bme) = NAN
        /\ getPressure(bme) = NAN /\ getGasResistance(bme) = F32Exact(0)
        /\ RequiredSettings(bme) = 0

\* C15: i2c_read writes the one register byte, then reads len bytes, each
\* once, and returns a non-zero status whenever one of the two bus
\* operations failed, the write of the register byte included.
C15_ReadReportsAnyFailure ==
    (op = "i2c_read" /\ frame.pc = "returned") =>
        /\ Len(frame.bus) = 2
        /\ frame.bus[1].fn = "write" /\ frame.bus[1].bytes = <<frame.reg_addr>>
        /\ frame.bus[2].fn = "read" /\ frame.bus[2].len = frame.len
        /\ (\E k \in 1 .. 2 : frame.bus[k].result # 0) => ret # 0

\* C16: the counter of the copy loop of i2c_write never wraps to 0, and an
\* i2c_write that has returned has made one bus write of len + 1 bytes, the
\* register address followed by the payload in order, and returned its
\* status.
C16_WriteCopiesAndSends ==
    /\ frame.pc = "copy" => frame.i >= 1
    /\ (op = "i2c_write" /\ frame.pc = "returned") =>
          /\ Len(frame.bus) = 1
          /\ frame.bus[1].len = frame.len + 1
          /\ frame.bus[1].bytes = <<frame.reg_addr>> \o frame.reg_data
          /\ ret = frame.bus[1].result

\* C20: a value accessor answers something other than its sentinel only
\* for a channel that was selected in the settings mask of the most recent
\* reading that returned true; never before the first such reading.
C20_ValuesComeFromLastReading ==
    /\ (op = "getTemperature" /\ ret # NAN) => BME680_OST_SEL \in acquired
    /\ (op = "getHumidity" /\ ret # NAN) => BME680_OSH_SEL \in acquired
    /\ (op = "getPressure" /\ ret # NAN) => BME680_OSP_SEL \in acquired
    /\ (op = "getGasResistance" /\ ret # F32Exact(0)) => BME680_GAS_SENSOR_SEL \in acquired

====
